---- MODULE Spec2Model ----
(***************************************************************************)
(* Model of the CreateTimestamp analysis pipeline (src/src/convert.py) and *)
(* of its Lambda entry point (src/src/lambda_function.py).                 *)
(*                                                                         *)
(* Representation choices                                                  *)
(*  - a Python str is a sequence of one-character strings;                 *)
(*  - an instant (datetime / unixtime) is an integer: a number of          *)
(*    milliseconds for timestamp (datetime resolves microseconds, which    *)
(*    adds no case), an abstract epoch for the distance computation;       *)
(*  - KusaDistance.avarage, a float quotient, is kept as the exact         *)
(*    fraction [num, den]; `distance > avarage` is `distance*den > num`;   *)
(*  - the result of a call that may raise is [error, value]: value is the  *)
(*    one-element sequence of the returned value, or <<>> when the call    *)
(*    raised the exception named by error;                                 *)
(*  - a regular expression is the set of messages re.search accepts.       *)
(***************************************************************************)
EXTENDS Integers, Sequences, FiniteSets, TLC

VARIABLES
    pc,             \* position of the run being modelled
    \* the analysis run
    csv,            \* CsvFile: [records |-> sorted sequence of MessageItem]
    kusa_distance,  \* result of KusaDistance.of(csv, PATTERN)
    kusa_group,     \* KusaGroup: [groups |-> sequence of groups]; for the
                    \* report, each group by its len, first and last
    \* format_secods
    fs_in,          \* the argument t, by its parts [date, frac, offset]
    fs_once,        \* format_secods(t)
    fs_twice,       \* format_secods(format_secods(t))
    \* timestamp
    ts_start,       \* the instant start parses to
    ts_target,      \* the instant target parses to
    ts_label,       \* timestamp(start, target)
    \* read_csv
    raw_rows,       \* list(reader): the rows of the file, header first
    chat_items,     \* the list read_csv returns
    \* LogReport
    n_target,       \* argument of create_md
    log_report,     \* LogReport.of(kusa_group)
    md,             \* create_md(table, n_target), as its sequence of lines
    \* lambda_handler
    event,          \* the event, by its "Records" entry
    service,        \* the local variable service of lambda_handler
    s3_index,       \* position of __service in s3_reocrds
    failed_stage,   \* the call that raised, "none" when none has
    exc,            \* the exception caught by lambda_handler
    publishes,      \* messages of the sns.publish calls made, in order
    uploads,        \* keys of the s3.upload calls made, in order
    escaped         \* the exception lambda_handler raised, "none" if none

kusaVars == <<csv, kusa_distance, kusa_group>>
formatVars == <<fs_in, fs_once, fs_twice>>
timeVars == <<ts_start, ts_target, ts_label>>
parseVars == <<raw_rows, chat_items>>
reportVars == <<n_target, log_report, md>>
handlerVars == <<event, service, s3_index, failed_stage, exc, publishes, uploads, escaped>>

vars == <<pc, kusaVars, formatVars, timeVars, parseVars, reportVars, handlerVars>>

-----------------------------------------------------------------------------
(* Bounds of the model *)

MaxRecords == 4     \* records in a transcript
MaxTime == 4        \* largest unixtime of a record
MaxFrac == 7        \* digits in a fractional-seconds component

-----------------------------------------------------------------------------
(* Generic helpers *)

RECURSIVE SumSeq(_)
SumSeq(s) == IF s = <<>> THEN 0 ELSE Head(s) + SumSeq(Tail(s))

RECURSIVE Flatten(_)
Flatten(ss) == IF ss = <<>> THEN <<>> ELSE Head(ss) \o Flatten(Tail(ss))

Max(a, b) == IF a >= b THEN a ELSE b
Min(a, b) == IF a <= b THEN a ELSE b

Raised(e) == [error |-> e, value |-> <<>>]
Returned(v) == [error |-> "none", value |-> <<v>>]

-----------------------------------------------------------------------------
(* MessageItem and the reaction detector *)

Messages == {"w", "hello"}

\* the default pattern of KusaDistance.of, as the set of messages it accepts
PATTERN == {"kusa", "w"}

\* MessageItem.has_kusa
HasKusa(record, pattern) == record.message \in pattern

IsSorted(records) ==
    \A i \in 1..(Len(records) - 1) : records[i].unixtime <= records[i + 1].unixtime

\* the record sequences CsvFile.of can produce: sorted by unixtime
CsvInputs ==
    { [records |-> r] :
        r \in { s \in UNION { [1..n -> [unixtime : 0..MaxTime, message : Messages]]
                              : n \in 0..MaxRecords } : IsSorted(s) } }

-----------------------------------------------------------------------------
(* KusaDistance.of *)

\* the for loop of KusaDistance.of from record i on
RECURSIVE DistanceLoop(_, _, _, _, _)
DistanceLoop(records, pattern, i, before, acc) ==
    IF i > Len(records) THEN acc
    ELSE IF ~HasKusa(records[i], pattern)
    THEN DistanceLoop(records, pattern, i + 1, before, acc)
    ELSE LET distance == records[i].unixtime - before
         IN  DistanceLoop(records, pattern, i + 1, records[i].unixtime,
                 [index_distance |->
                      Append(acc.index_distance,
                             [item |-> records[i], distance |-> distance]),
                  sum_distance |-> acc.sum_distance + distance])

\* faulty variant: the cursor starts at the first matching record, not the first record
KusaDistanceOfFromFirstMatch(c, pattern) ==
    IF Len(c.records) = 0 THEN Raised("IndexError")
    ELSE LET m == SelectSeq(c.records, LAMBDA r : HasKusa(r, pattern))
             before == IF m = <<>> THEN c.records[1].unixtime ELSE m[1].unixtime
             acc == DistanceLoop(c.records, pattern, 1, before,
                                 [index_distance |-> <<>>, sum_distance |-> 0])
         IN  IF Len(acc.index_distance) = 0 THEN Raised("ZeroDivisionError")
             ELSE Returned([records |-> acc.index_distance,
                            avarage |-> [num |-> acc.sum_distance,
                                         den |-> Len(acc.index_distance)]])

\* faulty variant: an empty reaction sequence yields a zero mean instead of an error
KusaDistanceOfZeroMean(c, pattern) ==
    LET before == IF Len(c.records) = 0 THEN 0 ELSE c.records[1].unixtime
        acc == DistanceLoop(c.records, pattern, 1, before,
                            [index_distance |-> <<>>, sum_distance |-> 0])
    IN  Returned([records |-> acc.index_distance,
                  avarage |-> [num |-> acc.sum_distance,
                               den |-> IF Len(acc.index_distance) = 0 THEN 1
                                       ELSE Len(acc.index_distance)]])

KusaDistanceOf(c, pattern) ==
    IF Len(c.records) = 0 THEN Raised("IndexError")       \* csv.records[0]
    ELSE LET acc == DistanceLoop(c.records, pattern, 1, c.records[1].unixtime,
                                 [index_distance |-> <<>>, sum_distance |-> 0])
         IN  IF Len(acc.index_distance) = 0
             THEN Raised("ZeroDivisionError")              \* sum / len([])
             ELSE Returned([records |-> acc.index_distance,
                            avarage |-> [num |-> acc.sum_distance,
                                         den |-> Len(acc.index_distance)]])

-----------------------------------------------------------------------------
(* KusaGroup.of *)

\* faulty variant: the threshold test with >= in place of >
OverAvarageOrEqual(record, avarage) ==
    record.distance * avarage.den >= avarage.num

\* record.distance > kusa_distance.avarage
OverAvarage(record, avarage) == record.distance * avarage.den > avarage.num

\* the for loop of KusaGroup.of from record i on
RECURSIVE GroupLoop(_, _, _, _, _)
GroupLoop(records, avarage, i, temp, groups) ==
    IF i > Len(records) THEN groups
    ELSE LET temp1 == Append(temp, records[i])
         IN  IF OverAvarage(records[i], avarage)
             THEN GroupLoop(records, avarage, i + 1, <<>>, Append(groups, temp1))
             ELSE GroupLoop(records, avarage, i + 1, temp1, groups)

\* the loop with the threshold tested before the record is appended
RECURSIVE GroupLoopSplitBefore(_, _, _, _, _)
GroupLoopSplitBefore(records, avarage, i, temp, groups) ==
    IF i > Len(records) THEN groups
    ELSE IF OverAvarage(records[i], avarage) /\ temp # <<>>
         THEN GroupLoopSplitBefore(records, avarage, i + 1, <<records[i]>>,
                                   Append(groups, temp))
         ELSE GroupLoopSplitBefore(records, avarage, i + 1,
                                   Append(temp, records[i]), groups)

\* faulty variant: a group closes before the over-mean record, which opens the next one
KusaGroupOfSplitBefore(kd) ==
    [groups |-> GroupLoopSplitBefore(kd.records, kd.avarage, 1, <<>>, <<>>)]

KusaGroupOf(kd) == [groups |-> GroupLoop(kd.records, kd.avarage, 1, <<>>, <<>>)]

-----------------------------------------------------------------------------
(* The analysis run: transcript -> distances -> groups *)

NoDistance == Raised("unset")
NoGroup == [groups |-> <<>>]

\* the local variable service of lambda_handler before its assignment
Unbound == [bound |-> FALSE, s3_reocrds |-> <<>>]

\* the variables of the runs that are not being modelled stay at rest
KusaIdle ==
    csv = [records |-> <<>>] /\ kusa_distance = NoDistance /\ kusa_group = NoGroup
FormatIdle ==
    fs_in = [date |-> <<>>, frac |-> <<>>, offset |-> <<>>]
        /\ fs_once = <<>> /\ fs_twice = <<>>
TimeIdle == ts_start = 0 /\ ts_target = 0 /\ ts_label = <<>>
ParseIdle == raw_rows = <<>> /\ chat_items = <<>>
ReportIdle == n_target = 0 /\ log_report = [records |-> <<>>] /\ md = <<>>
HandlerIdle ==
    /\ event = [has_records |-> TRUE, Records |-> <<>>]
    /\ service = Unbound
    /\ s3_index = 0
    /\ failed_stage = "none"
    /\ exc = "none"
    /\ publishes = <<>>
    /\ uploads = <<>>
    /\ escaped = "none"

Init ==
    /\ pc = "csv"
    /\ csv \in CsvInputs
    /\ kusa_distance = NoDistance
    /\ kusa_group = NoGroup
    /\ FormatIdle /\ TimeIdle /\ ParseIdle /\ ReportIdle /\ HandlerIdle

\* kusa_distance = KusaDistance.of(csv=csv, pattern=...)
DistanceStep ==
    /\ pc = "csv"
    /\ kusa_distance' = KusaDistanceOf(csv, PATTERN)
    /\ pc' = IF kusa_distance'.error = "none" THEN "distance" ELSE "failed"
    /\ UNCHANGED <<csv, kusa_group, formatVars, timeVars, parseVars, reportVars, handlerVars>>

\* kusa_group = KusaGroup.of(kusa_distance=kusa_distance)
GroupStep ==
    /\ pc = "distance"
    /\ kusa_group' = KusaGroupOf(kusa_distance.value[1])
    /\ pc' = "group"
    /\ UNCHANGED <<csv, kusa_distance, formatVars, timeVars, parseVars, reportVars, handlerVars>>

Next == DistanceStep \/ GroupStep

Spec == Init /\ [][Next]_vars

-----------------------------------------------------------------------------
(* Properties of the analysis run *)

Matching(c) == SelectSeq(c.records, LAMBDA r : r.message \in PATTERN)

DistanceDone == pc \in {"distance", "group", "failed"}

\* number of events in the first k emitted groups
RECURSIVE GroupEnd(_, _)
GroupEnd(gs, k) == IF k = 0 THEN 0 ELSE GroupEnd(gs, k - 1) + Len(gs[k])

\* the events (positions in the series) whose distance strictly exceeds the mean
OverMean(kd) ==
    { i \in 1..Len(kd.records) :
        kd.records[i].distance * kd.avarage.den > kd.avarage.num }

MaxOf(S) == IF S = {} THEN 0 ELSE CHOOSE x \in S : \A y \in S : y <= x

\* C1: the emitted groups are consecutive runs of the series' events, taken
\* from its first event on; every event whose distance is strictly greater
\* than the mean is the last element of an emitted group, and the event after
\* it is the first element of the following emitted group when there is one;
\* the events after the last over-mean event are in no emitted group.
C1_OverMeanEventEndsGroup ==
    pc = "group" =>
        LET kd == kusa_distance.value[1]
            rs == kd.records
            gs == kusa_group.groups
        IN  /\ \A k \in 1..Len(gs) :
                   gs[k] = SubSeq(rs, GroupEnd(gs, k - 1) + 1, GroupEnd(gs, k))
            /\ \A i \in OverMean(kd) :
                   \E k \in 1..Len(gs) :
                       /\ GroupEnd(gs, k) = i
                       /\ gs[k][Len(gs[k])] = rs[i]
                       /\ k < Len(gs) => gs[k + 1][1] = rs[i + 1]
            /\ GroupEnd(gs, Len(gs)) = MaxOf(OverMean(kd))

\* two groups are emitted, one of them of several events, and a tail of
\* events after the last over-mean event is left out
C1_Witness ==
    /\ pc = "group"
    /\ Len(kusa_group.groups) >= 2
    /\ \E k \in 1..Len(kusa_group.groups) : Len(kusa_group.groups[k]) >= 2
    /\ Len(Flatten(kusa_group.groups)) < Len(kusa_distance.value[1].records)

\* C2: in every emitted group, every event other than the group's first has
\* a distance (its gap to the preceding event of the group) <= the mean.
C2_NoInternalGapExceedsMean ==
    pc = "group" =>
        LET kd == kusa_distance.value[1]
        IN  \A k \in 1..Len(kusa_group.groups) :
                \A j \in 2..Len(kusa_group.groups[k]) :
                    kusa_group.groups[k][j].distance * kd.avarage.den
                        <= kd.avarage.num

\* the distance the claim C3 gives the k-th matching record
ClaimedDistance(c, k) ==
    IF k = 1 THEN Matching(c)[1].unixtime - c.records[1].unixtime
    ELSE Matching(c)[k].unixtime - Matching(c)[k - 1].unixtime

\* C3: for a non-empty sorted record sequence with a matching record,
\* KusaDistance.of returns exactly the matching records in order; the first
\* one's distance is its epoch minus the epoch of the first record (matching
\* or not), a later one's is its epoch minus the previous matching record's,
\* and avarage is the sum of those distances over the number of matches.
C3_DistancesAndMean ==
    (DistanceDone /\ Len(csv.records) > 0 /\ Matching(csv) # <<>>) =>
        /\ kusa_distance.error = "none"
        /\ Len(kusa_distance.value) = 1
        /\ LET kd == kusa_distance.value[1]
               m == Matching(csv)
           IN  /\ Len(kd.records) = Len(m)
               /\ \A k \in 1..Len(m) :
                      /\ kd.records[k].item = m[k]
                      /\ kd.records[k].distance = ClaimedDistance(csv, k)
               /\ kd.avarage.den = Len(m)
               /\ kd.avarage.num =
                      SumSeq([k \in 1..Len(m) |-> ClaimedDistance(csv, k)])

\* the first record does not match and lies before the first matching one,
\* and several records match
C3_Witness ==
    /\ DistanceDone
    /\ Len(Matching(csv)) >= 2
    /\ csv.records[1].message \notin PATTERN
    /\ kusa_distance.error = "none"
    /\ kusa_distance.value[1].records[1].distance > 0
    /\ kusa_distance.value[1].records[2].distance > 0

\* C11: for a KusaDistance produced by KusaDistance.of, KusaGroup.of emits no
\* group if and only if all reaction distances are equal, in particular when
\* there is exactly one reaction event; when two distances differ, at least
\* one group is emitted; and the number of emitted groups is the number of
\* events whose distance strictly exceeds the mean.
C11_GroupCount ==
    pc = "group" =>
        LET kd == kusa_distance.value[1]
            rs == kd.records
            gs == kusa_group.groups
            AllEqual == \A i, j \in 1..Len(rs) : rs[i].distance = rs[j].distance
        IN  /\ (gs = <<>>) <=> AllEqual
            /\ Len(rs) = 1 => gs = <<>>
            /\ ~AllEqual => Len(gs) >= 1
            /\ Len(gs) = Cardinality(OverMean(kd))

\* several reaction events, all at the same positive distance, gave no group
C11_Witness ==
    /\ pc = "group"
    /\ Len(kusa_distance.value[1].records) >= 3
    /\ \A i \in 1..Len(kusa_distance.value[1].records) :
           kusa_distance.value[1].records[i].distance = 1
    /\ kusa_group.groups = <<>>

\* C4 as stated: whenever no record matches, the empty record sequence
\* included, KusaDistance.of fails with a division error and returns nothing.
C4_NoMatchIsDivisionError ==
    (DistanceDone /\ Matching(csv) = <<>>) =>
        /\ kusa_distance.error = "ZeroDivisionError"
        /\ kusa_distance.value = <<>>

\* C4 amended: whenever no record matches, KusaDistance.of returns nothing:
\* it raises ZeroDivisionError when the record sequence is non-empty and
\* IndexError when the record sequence is empty.
C4_NoMatchRaises ==
    (DistanceDone /\ Matching(csv) = <<>>) =>
        /\ kusa_distance.value = <<>>
        /\ kusa_distance.error =
               IF Len(csv.records) = 0 THEN "IndexError" ELSE "ZeroDivisionError"

\* a non-empty record sequence without any match has made KusaDistance.of fail
C4_Witness ==
    /\ pc = "failed"
    /\ Len(csv.records) >= 2
    /\ Matching(csv) = <<>>
    /\ kusa_distance.error = "ZeroDivisionError"

-----------------------------------------------------------------------------
(* Python str operations on sequences of characters *)

\* s.split(c) for a one-character separator c
RECURSIVE Split(_, _)
Split(s, c) ==
    IF \A i \in 1..Len(s) : s[i] # c THEN <<s>>
    ELSE LET i == CHOOSE k \in 1..Len(s) :
                      s[k] = c /\ \A j \in 1..(k - 1) : s[j] # c
         IN  <<SubSeq(s, 1, i - 1)>> \o Split(SubSeq(s, i + 1, Len(s)), c)

\* c * n: the empty string when n <= 0
Repeat(c, n) == [i \in 1..n |-> c]

-----------------------------------------------------------------------------
(* format_secods *)

SecondsWidth == 6

\* faulty variant: the fractional part is cut to the width as well as padded
FormatSecodsTruncating(t) ==
    LET split_all == Split(t, "+")
        split_date == Split(split_all[1], ".")
        last == split_date[Len(split_date)]
        seconds == SubSeq(last \o Repeat("0", SecondsWidth - Len(last)),
                          1, SecondsWidth)
    IN  split_date[1] \o <<".">> \o seconds \o <<"+">> \o split_all[Len(split_all)]

FormatSecods(t) ==
    LET split_all == Split(t, "+")
        split_date == Split(split_all[1], ".")
        last == split_date[Len(split_date)]
        seconds == last \o Repeat("0", SecondsWidth - Len(last))
    IN  split_date[1] \o <<".">> \o seconds \o <<"+">> \o split_all[Len(split_all)]

\* timestamps of the form DATE.frac+OFFSET
Dates == { <<"0", "4", "T", "1", "2", ":", "0", "5">>, <<"T">> }
Offsets == { <<"0", "0", ":", "0", "0">>, <<"9">> }
Fracs == UNION { [1..n -> {"0", "7"}] : n \in 1..MaxFrac }

Compose(date, frac, offset) == date \o <<".">> \o frac \o <<"+">> \o offset

FormatInit ==
    /\ pc = "t"
    /\ fs_in \in [date : Dates, frac : Fracs, offset : Offsets]
    /\ fs_once = <<>>
    /\ fs_twice = <<>>
    /\ KusaIdle /\ TimeIdle /\ ParseIdle /\ ReportIdle /\ HandlerIdle

\* target_time = format_secods(item.meta_publishedat)
FormatStep ==
    /\ pc = "t"
    /\ fs_once' = FormatSecods(Compose(fs_in.date, fs_in.frac, fs_in.offset))
    /\ pc' = "once"
    /\ UNCHANGED <<fs_in, fs_twice, kusaVars, timeVars, parseVars, reportVars, handlerVars>>

\* format_secods applied to its own result
ReformatStep ==
    /\ pc = "once"
    /\ fs_twice' = FormatSecods(fs_once)
    /\ pc' = "twice"
    /\ UNCHANGED <<fs_in, fs_once, kusaVars, timeVars, parseVars, reportVars, handlerVars>>

FormatNext == FormatStep \/ ReformatStep

FormatSpec == FormatInit /\ [][FormatNext]_vars

\* the fractional part the claim C8 expects: frac right-padded with "0" to
\* the width when shorter, frac itself otherwise
ClaimedFrac(frac) ==
    [i \in 1..Max(SecondsWidth, Len(frac)) |->
        IF i <= Len(frac) THEN frac[i] ELSE "0"]

-----------------------------------------------------------------------------
(* timestamp *)

Ticks == 1000           \* instants are counted in milliseconds
MaxHours == 2           \* hours between start and target, either way

Digits == <<"0", "1", "2", "3", "4", "5", "6", "7", "8", "9">>

\* str(n) of a natural number
RECURSIVE StrNat(_)
StrNat(n) == IF n < 10 THEN <<Digits[n + 1]>>
             ELSE StrNat(n \div 10) \o <<Digits[(n % 10) + 1]>>

\* str(n), f"{n}"
Str(n) == IF n < 0 THEN <<"-">> \o StrNat(-n) ELSE StrNat(n)

\* f"{n:02}" for n >= 0
Fmt02(n) == Repeat("0", 2 - Len(StrNat(n))) \o StrNat(n)

\* timestamp(start, target) on the instants the two strings parse to;
\* \div is floor division, as // is
Timestamp(start, target) ==
    LET diff == target - start
        hh == diff \div (3600 * Ticks)
        remain == diff - hh * 3600 * Ticks
        mm == remain \div (60 * Ticks)
        ss == (remain - mm * 60 * Ticks) \div Ticks
    IN  IF hh = 0 THEN Fmt02(mm) \o <<":">> \o Fmt02(ss)
        ELSE Str(hh) \o <<":">> \o Fmt02(mm) \o <<":">> \o Fmt02(ss)

\* differences target - start: chat lines precede the stream start as well as
\* follow it, and carry fractional seconds
TimeOffsets ==
    { ((h * 60 + m) * 60 + sec) * Ticks + u :
        h \in (-MaxHours..MaxHours) \cup {10},
        m \in {0, 5, 59}, sec \in {0, 3, 59}, u \in {0, 500, 999} }

TimeInit ==
    /\ pc = "instants"
    /\ ts_start \in {0, 13 * 3600 * Ticks}
    /\ \E d \in TimeOffsets : ts_target = ts_start + d
    /\ ts_label = <<>>
    /\ KusaIdle /\ FormatIdle /\ ParseIdle /\ ReportIdle /\ HandlerIdle

\* timestamp=timestamp(start=start_time, target=target_time)
TimestampStep ==
    /\ pc = "instants"
    /\ ts_label' = Timestamp(ts_start, ts_target)
    /\ pc' = "label"
    /\ UNCHANGED <<ts_start, ts_target, kusaVars, formatVars, parseVars,
                   reportVars, handlerVars>>

TimeNext == TimestampStep

TimeSpec == TimeInit /\ [][TimeNext]_vars

\* target - start in whole seconds, the fraction truncated toward zero
WholeSeconds(start, target) ==
    IF target >= start THEN (target - start) \div Ticks
    ELSE -((start - target) \div Ticks)

IsDigit(c) == \E i \in 1..10 : Digits[i] = c

\* C6: timestamp(start, target) renders target - start in whole seconds as
\* H:MM:SS (hours unpadded, minutes and seconds zero-padded to width 2 and
\* in 0..59) when the hour count is > 0, and as MM:SS otherwise.
C6_ElapsedLabel ==
    pc = "label" =>
        LET d == WholeSeconds(ts_start, ts_target)
            a == IF d >= 0 THEN d ELSE -d
            H == a \div 3600
            MM == (a % 3600) \div 60
            SS == a % 60
        IN  IF d >= 0 /\ H > 0
            THEN ts_label = StrNat(H) \o <<":">> \o Fmt02(MM) \o <<":">> \o Fmt02(SS)
            ELSE IF d >= 0
            THEN ts_label = Fmt02(MM) \o <<":">> \o Fmt02(SS)
            ELSE \* no hour count > 0: the MM:SS form
                 /\ Len(ts_label) = 5
                 /\ ts_label[3] = ":"
                 /\ \A i \in {1, 2, 4, 5} : IsDigit(ts_label[i])

\* the claim restricted to targets at or after the start
C6_ElapsedLabelFromStart ==
    (pc = "label" /\ ts_target >= ts_start) => C6_ElapsedLabel

\* the two examples of the claim
C6_Examples ==
    /\ Timestamp(0, 59 * Ticks) = <<"0", "0", ":", "5", "9">>
    /\ Timestamp(0, (3600 + 5 * 60 + 3) * Ticks) = <<"1", ":", "0", "5", ":", "0", "3">>

-----------------------------------------------------------------------------
(* ChatItem and read_csv *)

MaxRows == 3            \* rows of a file, the header included

ChatItemFields ==
    << "meta_type", "meta_publishedat", "message_text", "message_channelid",
       "deleted_messageid", "member_usercomment", "member_month",
       "member_lebelname", "newsponsor_lebelname", "newsponsor_upgrade",
       "superchat_amountmicros", "superchat_currency", "superchat_usercomment",
       "superchat_tier", "supersticker_id", "supersticker_alttext",
       "supersticker_amountmicros", "supersticker_currency", "supersticker_tier",
       "membergift_count", "membergift_lebelname", "membergiftreceive_lebelname",
       "author_channel_id", "author_display_name", "author_is_verified",
       "author_is_chatowner", "author_is_chatsponsor", "author_is_chatmoderator",
       "ban_channelid", "ban_display_name" >>

FieldIndex(f) == CHOOSE i \in 1..Len(ChatItemFields) : ChatItemFields[i] = f

\* ChatItem(*x): the fields bound by position; TypeError on any other count
ChatItem(x) ==
    IF Len(x) = Len(ChatItemFields)
    THEN Returned([f \in {ChatItemFields[i] : i \in 1..Len(ChatItemFields)}
                       |-> x[FieldIndex(f)]])
    ELSE Raised("TypeError")

\* the for loop of read_csv from row i of rows on
RECURSIVE ReadLoop(_, _, _)
ReadLoop(rows, i, result) ==
    IF i > Len(rows) THEN result
    ELSE LET item == ChatItem(rows[i])
         IN  IF item.error = "none"
             THEN ReadLoop(rows, i + 1, Append(result, item.value[1]))
             ELSE ReadLoop(rows, i + 1, result)      \* except TypeError: log

\* the loop without the try: the first TypeError ends it
RECURSIVE ReadLoopAborting(_, _, _)
ReadLoopAborting(rows, i, result) ==
    IF i > Len(rows) THEN result
    ELSE LET item == ChatItem(rows[i])
         IN  IF item.error = "none"
             THEN ReadLoopAborting(rows, i + 1, Append(result, item.value[1]))
             ELSE result

\* list(reader)[1:]
DropHeader(rows) == SubSeq(rows, 2, Len(rows))

\* faulty variant: a malformed row ends the batch
ReadCsvAborting(rows) == ReadLoopAborting(DropHeader(rows), 1, <<>>)

ReadCsv(rows) == ReadLoop(DropHeader(rows), 1, <<>>)

\* a row of n fields; its fields differ from each other and from row to row
RawRow(n, tag) == [i \in 1..n |-> <<tag, i>>]

RowLengths ==
    {0, 1, Len(ChatItemFields) - 1, Len(ChatItemFields), Len(ChatItemFields) + 1}

RawRows == { RawRow(n, tag) : n \in RowLengths, tag \in {"a", "b"} }

ParseInit ==
    /\ pc = "rows"
    /\ raw_rows \in UNION { [1..n -> RawRows] : n \in 0..MaxRows }
    /\ chat_items = <<>>
    /\ KusaIdle /\ FormatIdle /\ TimeIdle /\ ReportIdle /\ HandlerIdle

\* return read_csv(...)
ReadCsvStep ==
    /\ pc = "rows"
    /\ chat_items' = ReadCsv(raw_rows)
    /\ pc' = "parsed"
    /\ UNCHANGED <<raw_rows, kusaVars, formatVars, timeVars, reportVars,
                   handlerVars>>

ParseNext == ReadCsvStep

ParseSpec == ParseInit /\ [][ParseNext]_vars

\* the rows after the header whose field count is the schema arity, in order
WellFormedRows ==
    SelectSeq(IF raw_rows = <<>> THEN <<>> ELSE Tail(raw_rows),
              LAMBDA x : Len(x) = Len(ChatItemFields))

\* C7: read_csv discards the first row, drops every other row whose field
\* count differs from the ChatItem arity and goes on with the batch, and
\* returns one ChatItem per remaining row, in input order, whose fields are
\* exactly that row's fields: none truncated, padded or defaulted.
C7_MalformedRowsDropped ==
    pc = "parsed" =>
        /\ Len(chat_items) = Len(WellFormedRows)
        /\ \A k \in 1..Len(chat_items) :
               /\ DOMAIN chat_items[k] =
                      {ChatItemFields[j] : j \in 1..Len(ChatItemFields)}
               /\ \A j \in 1..Len(ChatItemFields) :
                      chat_items[k][ChatItemFields[j]] = WellFormedRows[k][j]

\* a malformed row between the header and a well-formed row was dropped, and
\* the well-formed row after it was kept
C7_Witness ==
    /\ pc = "parsed"
    /\ Len(raw_rows) = 3
    /\ Len(raw_rows[1]) = Len(ChatItemFields)
    /\ Len(raw_rows[2]) = Len(ChatItemFields) + 1
    /\ Len(raw_rows[3]) = Len(ChatItemFields)
    /\ Len(chat_items) = 1
    /\ chat_items[1].meta_type = raw_rows[3][1]

-----------------------------------------------------------------------------
(* LogRecord and LogReport *)

MaxGroups == 3          \* groups of a KusaGroup
MaxTarget == 3          \* largest n_target

\* the characters of the strings compared, in code point order
Alphabet == <<"+", "-", ".">> \o Digits \o <<":", "T">>

Ord(c) == CHOOSE i \in 1..Len(Alphabet) : Alphabet[i] = c

\* a < b on str: lexicographic by code point, a proper prefix first
RECURSIVE StrLess(_, _)
StrLess(a, b) ==
    IF b = <<>> THEN FALSE
    ELSE IF a = <<>> THEN TRUE
    ELSE IF Head(a) # Head(b) THEN Ord(Head(a)) < Ord(Head(b))
    ELSE StrLess(Tail(a), Tail(b))

\* s.zfill(width)
Zfill(s, width) == Repeat("0", width - Len(s)) \o s

IndexWidth == 3
CountWidth == 4

\* LogRecord.of. A group is given by what LogRecord.of reads of it: len, its
\* length, first, group[0], and last, group[-1]. The field record, the dump
\* of the group's items that only full_report prints, is left out
LogRecordOf(n_index, group) ==
    [index |-> Zfill(Str(n_index), IndexWidth),
     n_record |-> Zfill(Str(group.len), CountWidth),
     start_timestamp |-> group.first.item.timestamp,
     end_timestamp |-> group.last.item.timestamp]

\* LogRecord.report: the pieces of the f-string
Report(r) == <<"* [">> \o r.start_timestamp \o <<"]: ">> \o r.n_record
                 \o <<" comments!\n">>

\* LogReport.of
LogReportOf(item) ==
    [records |-> [idx \in 1..Len(item.groups) |-> LogRecordOf(idx, item.groups[idx])]]

\* sorted(xs, key=lambda x: x.<key>, reverse=...): stable; with reverse the
\* order is descending and elements of equal key still keep their original
\* order. InsertSorted puts x behind the elements that do not sort after it.
RECURSIVE InsertSorted(_, _, _, _)
InsertSorted(sorted, x, key, reverse) ==
    IF sorted = <<>> THEN <<x>>
    ELSE IF (IF reverse THEN StrLess(Head(sorted)[key], x[key])
                        ELSE StrLess(x[key], Head(sorted)[key]))
         THEN <<x>> \o sorted
         ELSE <<Head(sorted)>> \o InsertSorted(Tail(sorted), x, key, reverse)

RECURSIVE SortedFrom(_, _, _, _, _)
SortedFrom(xs, i, acc, key, reverse) ==
    IF i > Len(xs) THEN acc
    ELSE SortedFrom(xs, i + 1, InsertSorted(acc, xs[i], key, reverse), key, reverse)

Sorted(xs, key, reverse) == SortedFrom(xs, 1, <<>>, key, reverse)

\* xs[:n]
Slice(xs, n) ==
    IF n >= 0 THEN SubSeq(xs, 1, Min(n, Len(xs)))
    ELSE SubSeq(xs, 1, Max(Len(xs) + n, 0))

\* LogReport.create_md, as the sequence of the lines it joins
CreateMd(self, table, n) ==
    LET target == Slice(Sorted(self.records, "n_record", TRUE), n)
        shown == Sorted(target, "index", FALSE)
    IN  <<table.title \o <<"\n">> >> \o [i \in 1..Len(shown) |-> Report(shown[i])]

\* the NotifyControllerTable row of the video
Table == [title |-> <<"T">>]

\* the view of a group of n events, the k-th group of a stream: it starts in
\* minute k and, when of several events, ends 3 s later with the event whose
\* distance closed it
ReportGroup(k, n) ==
    [len |-> n,
     first |-> [item |-> [timestamp |-> Timestamp(0, k * 60 * Ticks),
                          message |-> "w"],
                distance |-> IF n = 1 THEN 60 ELSE 0],
     last |-> [item |-> [timestamp |->
                             Timestamp(0, (k * 60 + (IF n = 1 THEN 0 ELSE 3)) * Ticks),
                         message |-> "w"],
               distance |-> IF n = 1 THEN 60 ELSE 3]]

GroupSizes == {1, 2, 10, 9999, 10000}

ReportInit ==
    /\ pc = "groups"
    /\ \E m \in 0..MaxGroups :
           \E sizes \in [1..m -> GroupSizes] :
               kusa_group = [groups |-> [k \in 1..m |-> ReportGroup(k, sizes[k])]]
    /\ n_target \in 0..MaxTarget
    /\ log_report = [records |-> <<>>]
    /\ md = <<>>
    /\ csv = [records |-> <<>>]
    /\ kusa_distance = NoDistance
    /\ FormatIdle /\ TimeIdle /\ ParseIdle /\ HandlerIdle

\* log_report = LogReport.of(item=kusa_group)
LogReportStep ==
    /\ pc = "groups"
    /\ log_report' = LogReportOf(kusa_group)
    /\ pc' = "report"
    /\ UNCHANGED <<n_target, md, kusaVars, formatVars, timeVars, parseVars,
                   handlerVars>>

\* log_report.create_md(table, n_target)
CreateMdStep ==
    /\ pc = "report"
    /\ md' = CreateMd(log_report, Table, n_target)
    /\ pc' = "md"
    /\ UNCHANGED <<n_target, log_report, kusaVars, formatVars, timeVars,
                   parseVars, handlerVars>>

ReportNext == LogReportStep \/ CreateMdStep

ReportSpec == ReportInit /\ [][ReportNext]_vars

\* the bursts with the n greatest event counts, an earlier burst preferred
\* among bursts of equal count
NumericTop(groups, n) ==
    { j \in 1..Len(groups) :
        Cardinality({ i \in 1..Len(groups) :
                        \/ groups[i].len > groups[j].len
                        \/ groups[i].len = groups[j].len /\ i < j }) < n }

\* C5: the rendered text starts with the title line, and the entries
\* rendered after it are exactly the n_target entries (all, if fewer) of
\* numerically greatest event count, ties going to the earlier entry.
C5_TopByEventCount ==
    pc = "md" =>
        LET top == NumericTop(kusa_group.groups, n_target)
        IN  /\ md[1] = Table.title \o <<"\n">>
            /\ Len(md) = 1 + Cardinality(top)
            /\ { md[i] : i \in 2..Len(md) } =
                   { Report(log_report.records[j]) : j \in top }

\* the claim on bursts of fewer than 10^CountWidth events
C5_TopByEventCountBelowWidth ==
    (pc = "md" /\ \A k \in 1..Len(kusa_group.groups) :
                      kusa_group.groups[k].len < 10000)
        => C5_TopByEventCount

-----------------------------------------------------------------------------
(* lambda_handler and LambdaService *)

MaxS3 == 2              \* S3 records of an event

\* object keys, as their path segments and separators
S3Keys == { <<"UC1", "/", "vid1", ".", "csv">>,
            <<"UC2", "/", "vid2", ".", "csv">>,
            <<"vid3", ".", "csv">> }

\* S3Event.of
S3EventOf(record) ==
    LET key == record.key
        key_without_suffix == Split(key, ".")[1]
        key_split == Split(key_without_suffix, "/")
    IN  IF Len(key_split) < 2 THEN Raised("IndexError")     \* key_split[1]
        ELSE Returned([channel_id |-> key_split[1],
                       video_id |-> key_split[2],
                       bucket_name |-> record.bucket,
                       key |-> key])

\* [S3Event.of(x) for x in event["Records"]]
RECURSIVE S3EventsFrom(_, _, _)
S3EventsFrom(records, i, acc) ==
    IF i > Len(records) THEN Returned(acc)
    ELSE LET e == S3EventOf(records[i])
         IN  IF e.error # "none" THEN Raised(e.error)
             ELSE S3EventsFrom(records, i + 1, Append(acc, e.value[1]))

\* f"{record.channel_id}/{record.video_id}.md"
OutputPath(record) == record.channel_id \o <<"/">> \o record.video_id \o <<".md">>

\* events: with or without the "Records" entry
Events ==
    { [has_records |-> h, Records |-> r] :
        h \in BOOLEAN,
        r \in UNION { [1..n -> [key : S3Keys, bucket : {"in"}]] : n \in 0..MaxS3 } }

HandlerInit ==
    /\ pc = "handler"
    /\ event \in { e \in Events : e.has_records \/ e.Records = <<>> }
    /\ service = Unbound
    /\ s3_index = 0
    /\ failed_stage = "none"
    /\ exc = "none"
    /\ publishes = <<>>
    /\ uploads = <<>>
    /\ escaped = "none"
    /\ KusaIdle /\ FormatIdle /\ TimeIdle /\ ParseIdle /\ ReportIdle

HandlerOthers == <<kusaVars, formatVars, timeVars, parseVars, reportVars>>

\* a call raised e inside the try of lambda_handler
Raise(stage, e) ==
    /\ exc' = e
    /\ failed_stage' = stage
    /\ pc' = "except"

\* service = LambdaService.of(event=event): the clients, the environment and
\* the secret may fail; then event["Records"] and S3Event.of decide
OfStep ==
    /\ pc = "handler"
    /\ \E outcome \in {"none", "KeyError", "ClientError"} :
           IF outcome # "none" THEN
               Raise("of", outcome) /\ UNCHANGED <<service, s3_index>>
           ELSE IF ~event.has_records THEN
               Raise("of", "KeyError") /\ UNCHANGED <<service, s3_index>>
           ELSE LET s3_reocrds == S3EventsFrom(event.Records, 1, <<>>)
                IN  IF s3_reocrds.error # "none" THEN
                        Raise("of", s3_reocrds.error)
                            /\ UNCHANGED <<service, s3_index>>
                    ELSE /\ service' = [bound |-> TRUE, s3_reocrds |-> s3_reocrds.value[1]]
                         /\ s3_index' = 1
                         /\ pc' = "for"
                         /\ UNCHANGED <<exc, failed_stage>>
    /\ UNCHANGED <<event, publishes, uploads, escaped, HandlerOthers>>

\* for record in self.s3_reocrds
ForStep ==
    /\ pc = "for"
    /\ pc' = IF s3_index > Len(service.s3_reocrds) THEN "done" ELSE "csv_of"
    /\ UNCHANGED <<handlerVars, HandlerOthers>>

\* csv = CsvFile.of(...): the videos API and the S3 read may fail
CsvStep ==
    /\ pc = "csv_of"
    /\ \E outcome \in {"none", "Exception", "ClientError"} :
           IF outcome # "none" THEN Raise("csv", outcome)
           ELSE pc' = "distance_of" /\ UNCHANGED <<exc, failed_stage>>
    /\ UNCHANGED <<event, service, s3_index, publishes, uploads, escaped,
                   HandlerOthers>>

\* kusa_distance = KusaDistance.of(...): fails as the transcript decides
KusaDistanceStep ==
    /\ pc = "distance_of"
    /\ \E outcome \in {"none", "ZeroDivisionError", "IndexError"} :
           IF outcome # "none" THEN Raise("distance", outcome)
           ELSE pc' = "table_of" /\ UNCHANGED <<exc, failed_stage>>
    /\ UNCHANGED <<event, service, s3_index, publishes, uploads, escaped,
                   HandlerOthers>>

\* table = NotifyControllerTable.of(...): the table lookup may fail
TableStep ==
    /\ pc = "table_of"
    /\ \E outcome \in {"none", "KeyError", "ClientError"} :
           IF outcome # "none" THEN Raise("table", outcome)
           ELSE pc' = "write_log" /\ UNCHANGED <<exc, failed_stage>>
    /\ UNCHANGED <<event, service, s3_index, publishes, uploads, escaped,
                   HandlerOthers>>

\* KusaGroup.of and LogReport.of, then log_report.write_log(table): LogReport
\* has no attribute write_log, so the call raises AttributeError and the
\* s3.upload after it is not reached
WriteLogStep ==
    /\ pc = "write_log"
    /\ Raise("write_log", "AttributeError")
    /\ UNCHANGED <<event, service, s3_index, publishes, uploads, escaped,
                   HandlerOthers>>

\* except Exception as e: service.error(e). With service unbound the handler
\* raises UnboundLocalError; otherwise error publishes str(e) and absorbs a
\* failure of the publish
ExceptStep ==
    /\ pc = "except"
    /\ IF ~service.bound
       THEN escaped' = "UnboundLocalError" /\ UNCHANGED publishes
       ELSE /\ \E ok \in BOOLEAN :
                   publishes' = Append(publishes, [message |-> exc, ok |-> ok])
            /\ UNCHANGED escaped
    /\ pc' = "done"
    /\ UNCHANGED <<event, service, s3_index, failed_stage, exc, uploads,
                   HandlerOthers>>

HandlerNext ==
    \/ OfStep
    \/ ForStep
    \/ CsvStep
    \/ KusaDistanceStep
    \/ TableStep
    \/ WriteLogStep
    \/ ExceptStep

HandlerSpec == HandlerInit /\ [][HandlerNext]_vars

\* C9: when the event carries S3 records and every lookup and pipeline stage
\* succeeds, the finished run has uploaded, for each S3 record, the summary
\* under <channel_id>/<video_id>.md, and has published no error notification.
C9_SummaryUploaded ==
    (/\ pc = "done"
     /\ service.bound
     /\ Len(event.Records) >= 1
     /\ failed_stage \notin {"of", "csv", "distance", "table"}) =>
        /\ uploads = [i \in 1..Len(service.s3_reocrds) |->
                          OutputPath(service.s3_reocrds[i])]
        /\ publishes = <<>>

\* C10: lambda_handler never raises, and for every exception raised while
\* handling the event, in LambdaService.of or in the service, exactly one
\* error publish carrying the exception's message is attempted.
C10_HandlerNeverRaises ==
    pc = "done" =>
        /\ escaped = "none"
        /\ exc # "none" => (Len(publishes) = 1 /\ publishes[1].message = exc)

\* the claim of C10 for the exceptions raised once service is bound
C10_ServiceErrorsPublished ==
    (pc = "done" /\ service.bound) =>
        /\ escaped = "none"
        /\ exc # "none" => (Len(publishes) = 1 /\ publishes[1].message = exc)

====
